---------------------------- MODULE Spec2Model ----------------------------
(***************************************************************************)
(* Model of src/main.py: the IoT predictive-maintenance service.           *)
(*                                                                         *)
(* State on disk: the table iot_machine_data of the SQLite file and the    *)
(* pickle file MODEL_FILE.  The request handlers add_data, simulate_data,  *)
(* train and predict run one request at a time; train_model is split at    *)
(* its file write (open "wb" truncates, pickle.dump fills) so that the     *)
(* contents of MODEL_FILE during and after a write are states.             *)
(*                                                                         *)
(* Floats are scaled integers: temperature and pressure in units,          *)
(* vibration in thousandths (0.08 is 80).                                  *)
(***************************************************************************)
EXTENDS Integers, Sequences, FiniteSets

VARIABLES
    iot_machine_data,  \* the rows of the table, in rowid order
    model_file,        \* the contents of MODEL_FILE
    pc,                \* "idle", or "writing" while train_model holds MODEL_FILE open
    fitted,            \* the model train_model holds in memory while writing
    resp,              \* what the last request returned to its caller
    lastTrained,       \* history: the model the latest successful train_model persisted
    trained            \* history: a train_model call of this run has returned success

vars == <<iot_machine_data, model_file, pc, fitted, resp, lastTrained, trained>>

----------------------------------------------------------------------------
(* Bounds *)

MaxRecords == 2
MaxSimCount == 1

(* Inputs *)

MachineIds == {"m1", "m2"}
Statuses == {"OK", "FAIL", "BROKEN"}

\* Values on both sides of each threshold of simulate_data.
Temps == {90, 91}
Vibs == {80, 81}
Press == {27, 28}
Draws == Temps \X Vibs \X Press

\* The ranges of the three random.uniform calls, with the thresholds.
WideDraws == {60, 90, 91, 100} \X {10, 80, 81, 100} \X {25, 27, 28, 40}

\* The readings the general specification feeds to every handler.
Readings == {<<90, 80, 28>>, <<91, 80, 28>>}

----------------------------------------------------------------------------
(* Files *)

NoModel == [state |-> "absent", X |-> <<>>, y |-> <<>>]
Truncated == [state |-> "partial", X |-> <<>>, y |-> <<>>]

\* A model file left by an earlier run of the service, whose database file
\* has since been removed: the module creates the table when DB_FILE is
\* missing and never touches MODEL_FILE.
PriorModel ==
    [state |-> "complete", X |-> << <<91, 80, 28>>, <<90, 80, 28>> >>, y |-> <<1, 0>>]

(* Responses *)

Resp(op, body, count, machine_id, prediction, model) ==
    [op |-> op, body |-> body, count |-> count, machine_id |-> machine_id,
     prediction |-> prediction, model |-> model]

NoResp == Resp("none", "", 0, "", "", NoModel)

\* The request is still running: nothing has been returned yet.
Pending(op) == Resp(op, "", 0, "", "", NoModel)

\* An exception no handler catches: the framework answers 500.
Uncaught(op) == Resp(op, "exception", 0, "", "", NoModel)

----------------------------------------------------------------------------
(* Record store *)

\* Mutant: every row gets the first id.
NextIdFirst(rows) == 1

\* INTEGER PRIMARY KEY: the next rowid is one more than the largest.
NextId(rows) ==
    IF rows = <<>> THEN 1 ELSE rows[Len(rows)].id + 1

IoTMachineData(id, machine_id, temperature, vibration, pressure, status) ==
    [id |-> id, machine_id |-> machine_id, temperature |-> temperature,
     vibration |-> vibration, pressure |-> pressure, status |-> status]

add_data(machine_id, temperature, vibration, pressure, status) ==
    /\ pc = "idle"
    /\ Len(iot_machine_data) < MaxRecords
    /\ iot_machine_data' = Append(iot_machine_data,
          IoTMachineData(NextId(iot_machine_data), machine_id, temperature,
                         vibration, pressure, status))
    /\ resp' = Resp("add_data", "Data added successfully", 0, "", "", NoModel)
    /\ UNCHANGED <<model_file, pc, fitted, lastTrained, trained>>

----------------------------------------------------------------------------
(* Simulator *)

TempLimit == 90
VibLimit == 80
PressLimit == 28

\* Mutant: the comparisons are not strict.
SimStatusNonStrict(temperature, vibration, pressure) ==
    IF temperature >= TempLimit \/ vibration >= VibLimit \/ pressure <= PressLimit
    THEN "FAIL" ELSE "OK"

SimStatus(temperature, vibration, pressure) ==
    IF temperature > TempLimit \/ vibration > VibLimit \/ pressure < PressLimit
    THEN "FAIL" ELSE "OK"

\* range(count)
Range(count) == 1 .. count

\* Mutant: the loop stops one iteration early.
SimEntriesShort(rows, machine_id, count, draws) ==
    [i \in Range(count - 1) |->
        IoTMachineData(NextId(rows) + i - 1, machine_id,
                       draws[i][1], draws[i][2], draws[i][3],
                       SimStatus(draws[i][1], draws[i][2], draws[i][3]))]

\* The entries the loop adds to the session, in order; draws[i] is the
\* outcome of the three random.uniform calls of iteration i.
SimEntries(rows, machine_id, count, draws) ==
    [i \in Range(count) |->
        IoTMachineData(NextId(rows) + i - 1, machine_id,
                       draws[i][1], draws[i][2], draws[i][3],
                       SimStatus(draws[i][1], draws[i][2], draws[i][3]))]

simulate_data(machine_id, count, draws) ==
    /\ pc = "idle"
    /\ iot_machine_data' =
          iot_machine_data \o SimEntries(iot_machine_data, machine_id, count, draws)
    /\ resp' = Resp("simulate_data", "simulated IoT records added", count,
                    machine_id, "", NoModel)
    /\ UNCHANGED <<model_file, pc, fitted, lastTrained, trained>>

----------------------------------------------------------------------------
(* Model trainer *)

Features(rows) ==
    [i \in 1 .. Len(rows) |->
        <<rows[i].temperature, rows[i].vibration, rows[i].pressure>>]

Labels(rows) ==
    [i \in 1 .. Len(rows) |-> IF rows[i].status = "FAIL" THEN 1 ELSE 0]

Classes(y) == {y[i] : i \in 1 .. Len(y)}

\* LogisticRegression().fit(X, y): the fitted estimator is a function of the
\* training data; fit raises ValueError when y holds a single class.
FitRaises(y) == Cardinality(Classes(y)) < 2

Fit(X, y) == [state |-> "complete", X |-> X, y |-> y]

\* Mutant: the empty branch removes the model file.
train_model_empty_removes ==
    /\ pc = "idle"
    /\ iot_machine_data = <<>>
    /\ model_file' = NoModel
    /\ resp' = Resp("train_model", "No data available to train", 0, "", "", NoModel)
    /\ UNCHANGED <<iot_machine_data, pc, fitted, lastTrained, trained>>

\* data.empty: return None; train answers "No data available to train".
train_model_empty ==
    /\ pc = "idle"
    /\ iot_machine_data = <<>>
    /\ resp' = Resp("train_model", "No data available to train", 0, "", "", NoModel)
    /\ UNCHANGED <<iot_machine_data, model_file, pc, fitted, lastTrained, trained>>

\* model.fit raises before MODEL_FILE is opened; nothing catches it.
train_model_fit_raises ==
    /\ pc = "idle"
    /\ iot_machine_data # <<>>
    /\ FitRaises(Labels(iot_machine_data))
    /\ resp' = Uncaught("train_model")
    /\ UNCHANGED <<iot_machine_data, model_file, pc, fitted, lastTrained, trained>>

\* The fit succeeds and open(MODEL_FILE, "wb") truncates the file.
train_model_open ==
    /\ pc = "idle"
    /\ iot_machine_data # <<>>
    /\ ~FitRaises(Labels(iot_machine_data))
    /\ fitted' = Fit(Features(iot_machine_data), Labels(iot_machine_data))
    /\ model_file' = Truncated
    /\ pc' = "writing"
    /\ resp' = Pending("train_model")
    /\ UNCHANGED <<iot_machine_data, lastTrained, trained>>

\* pickle.dump completes; train answers "Model trained successfully".
train_model_dump ==
    /\ pc = "writing"
    /\ model_file' = fitted
    /\ lastTrained' = fitted
    /\ trained' = TRUE
    /\ fitted' = NoModel
    /\ pc' = "idle"
    /\ resp' = Resp("train_model", "Model trained successfully", 0, "", "", NoModel)
    /\ UNCHANGED iot_machine_data

\* pickle.dump fails part-way (an OSError of the write): the with block
\* closes the file as it is and the exception leaves the handler.
train_model_dump_fails ==
    /\ pc = "writing"
    /\ model_file' = Truncated
    /\ fitted' = NoModel
    /\ pc' = "idle"
    /\ resp' = Uncaught("train_model")
    /\ UNCHANGED <<iot_machine_data, lastTrained, trained>>

train ==
    \/ train_model_empty
    \/ train_model_fit_raises
    \/ train_model_open
    \/ train_model_dump
    \/ train_model_dump_fails

----------------------------------------------------------------------------
(* Predictor *)

\* os.path.exists(MODEL_FILE), then pickle.load
load_model == model_file

\* model.predict(X_new)[0]: one of the classes the estimator was fitted on;
\* which one is decided by the numerical fit, left open here.
ModelPredict(model, X_new) == Classes(model.y)

predict_not_trained(temperature, vibration, pressure) ==
    /\ pc = "idle"
    /\ load_model.state = "absent"
    /\ resp' = Resp("predict", "Model not trained yet", 0, "", "", NoModel)
    /\ UNCHANGED <<iot_machine_data, model_file, pc, fitted, lastTrained, trained>>

\* pickle.load raises on a truncated file; nothing catches it.
predict_load_raises(temperature, vibration, pressure) ==
    /\ pc = "idle"
    /\ load_model.state = "partial"
    /\ resp' = Uncaught("predict")
    /\ UNCHANGED <<iot_machine_data, model_file, pc, fitted, lastTrained, trained>>

predict_model(temperature, vibration, pressure) ==
    /\ pc = "idle"
    /\ load_model.state = "complete"
    /\ \E prediction \in ModelPredict(load_model, <<temperature, vibration, pressure>>) :
          resp' = Resp("predict", "prediction", 0, "",
                       IF prediction = 1 THEN "FAIL" ELSE "OK", load_model)
    /\ UNCHANGED <<iot_machine_data, model_file, pc, fitted, lastTrained, trained>>

predict(temperature, vibration, pressure) ==
    \/ predict_not_trained(temperature, vibration, pressure)
    \/ predict_load_raises(temperature, vibration, pressure)
    \/ predict_model(temperature, vibration, pressure)

----------------------------------------------------------------------------
(* The service *)

Init ==
    /\ iot_machine_data = <<>>
    /\ model_file \in {NoModel, PriorModel}
    /\ lastTrained = model_file
    /\ trained = FALSE
    /\ pc = "idle"
    /\ fitted = NoModel
    /\ resp = NoResp

AddData ==
    \E m \in MachineIds, r \in Readings, s \in Statuses :
        add_data(m, r[1], r[2], r[3], s)

SimulateData ==
    \E m \in MachineIds, count \in (-1) .. (MaxRecords - Len(iot_machine_data)) :
        \E draws \in [Range(count) -> Readings] :
            simulate_data(m, count, draws)

Predict ==
    \E r \in Readings : predict(r[1], r[2], r[3])

Next == AddData \/ SimulateData \/ train \/ Predict

Spec == Init /\ [][Next]_vars

\* The simulator alone, over the whole range of its draws.
SimulateWide ==
    \E m \in MachineIds, count \in 0 .. (MaxSimCount - Len(iot_machine_data)) :
        \E draws \in [Range(count) -> WideDraws] :
            simulate_data(m, count, draws)

NextSim == SimulateWide

SpecSim == Init /\ [][NextSim]_vars

\* The scenario simulate_data(machine_id="m1", count=5), then train_model,
\* from an empty store.
SimulateFive ==
    /\ iot_machine_data = <<>>
    /\ \E draws \in [Range(5) -> Draws] : simulate_data("m1", 5, draws)

NextScenario ==
    \/ SimulateFive
    \/ train_model_fit_raises
    \/ train_model_open
    \/ train_model_dump
    \/ train_model_dump_fails

SpecScenario == Init /\ [][NextScenario]_vars

----------------------------------------------------------------------------
(* Properties *)

\* The rows a step appended to the table.
Added == Len(iot_machine_data') - Len(iot_machine_data)

NewRows == (Len(iot_machine_data) + 1) .. Len(iot_machine_data')

\* C1: every record simulate_data generates has status FAIL if and only if
\* temperature > 90 or vibration > 0.08 or pressure < 28, the comparisons
\* strict: a record on all three thresholds is labelled OK.
C1_StatusIffThreshold ==
    [][resp'.op = "simulate_data" =>
          \A i \in NewRows :
              LET r == iot_machine_data'[i] IN
                  /\ r.status \in {"OK", "FAIL"}
                  /\ r.status = "FAIL" <=>
                        (r.temperature > 90 \/ r.vibration > 80 \/ r.pressure < 28)]_vars

\* C1 witness: simulate_data stored the reading on all three thresholds,
\* labelled OK.
C1_Witness ==
    /\ resp.op = "simulate_data"
    /\ \E i \in 1 .. Len(iot_machine_data) :
          /\ iot_machine_data[i].temperature = 90
          /\ iot_machine_data[i].vibration = 80
          /\ iot_machine_data[i].pressure = 28
          /\ iot_machine_data[i].status = "OK"

\* C2: the record store is an append-only log: every request keeps the rows
\* already stored, unchanged and in place; add_data adds one row at the end,
\* train_model and predict add none; the ids are strictly increasing in
\* insertion order.
C2_AppendOnly ==
    [][/\ Added >= 0
       /\ SubSeq(iot_machine_data', 1, Len(iot_machine_data)) = iot_machine_data
       /\ \A i \in 1 .. (Len(iot_machine_data') - 1) :
             iot_machine_data'[i].id < iot_machine_data'[i + 1].id
       /\ resp'.op = "add_data" => Added = 1
       /\ resp'.op \in {"train_model", "predict"} => Added = 0]_vars

\* C2 witness: two inserts, then a training run and a prediction; the table
\* holds the two rows with ids 1 and 2.
C2_Witness ==
    /\ Len(iot_machine_data) = 2
    /\ iot_machine_data[1].id = 1
    /\ iot_machine_data[2].id = 2
    /\ lastTrained.X = Features(iot_machine_data)
    /\ resp.op = "predict"

\* C3: train_model on an empty store answers "no data available" and leaves
\* MODEL_FILE as it was, absent or the model persisted before.
C3_EmptyTrainKeepsModel ==
    [][(iot_machine_data = <<>> /\ resp'.op = "train_model") =>
          /\ resp'.body = "No data available to train"
          /\ model_file' = model_file
          /\ pc' = "idle"]_vars

\* C3 witness: train_model has answered "no data available" on an empty
\* store while a model persisted earlier is on disk.
C3_Witness ==
    /\ iot_machine_data = <<>>
    /\ resp.op = "train_model"
    /\ resp.body = "No data available to train"
    /\ model_file = PriorModel

\* C4: while no successful training has ever persisted a model, predict
\* answers "not trained" for every input and never raises.
C4_PredictBeforeTraining ==
    [][(lastTrained = NoModel /\ resp'.op = "predict") =>
          resp'.body = "Model not trained yet"]_vars

\* C5: every stored record has status "OK" or "FAIL".
C5_StatusEnum ==
    \A i \in 1 .. Len(iot_machine_data) :
        iot_machine_data[i].status \in {"OK", "FAIL"}

\* C6: in every state, the states during and after a model write included,
\* MODEL_FILE is absent or holds the complete model of a finished training
\* run.
C6_AtomicReplace ==
    \/ model_file = NoModel
    \/ model_file.state = "complete" /\ model_file = lastTrained

\* C7: once train_model has returned success, every later predict answers a
\* prediction, "OK" or "FAIL", computed from the model the latest successful
\* train_model persisted.
C7_PredictUsesLatest ==
    [][(trained /\ resp'.op = "predict") =>
          /\ resp'.body = "prediction"
          /\ resp'.prediction \in {"OK", "FAIL"}
          /\ resp'.model = lastTrained]_vars

\* C8 as stated: for every integer count, simulate_data appends exactly
\* count records carrying machine_id and reports the number it added.
C8_AppendsCount ==
    [][resp'.op = "simulate_data" =>
          /\ Added = resp'.count
          /\ \A i \in NewRows : iot_machine_data'[i].machine_id = resp'.machine_id]_vars

\* C8 amended: simulate_data appends max(count, 0) records, all carrying
\* machine_id, after the rows already stored; its confirmation reports
\* count, which is the number added exactly when count >= 0.
C8_AppendsCountNonNegative ==
    [][resp'.op = "simulate_data" =>
          /\ Added = (IF resp'.count >= 0 THEN resp'.count ELSE 0)
          /\ SubSeq(iot_machine_data', 1, Len(iot_machine_data)) = iot_machine_data
          /\ \A i \in NewRows : iot_machine_data'[i].machine_id = resp'.machine_id
          /\ resp'.body = "simulated IoT records added"]_vars

\* C8 witness: simulate_data("m2", 2) has stored two records of machine m2.
C8_Witness ==
    /\ resp.op = "simulate_data"
    /\ resp.count = 2
    /\ resp.machine_id = "m2"
    /\ Len(iot_machine_data) = 2
    /\ \A i \in 1 .. 2 : iot_machine_data[i].machine_id = "m2"

\* C9: from an empty store, simulate_data("m1", 5) then train_model ends
\* with train_model reporting success, whatever the five draws.
C9_ScenarioTrainSucceeds ==
    (resp.op = "train_model" /\ resp.body # "") =>
        resp.body = "Model trained successfully"

\* C10: train_model on a non-empty store whose labels are all identical
\* returns a structured result, not an uncaught exception.
C10_DegenerateStructured ==
    [][(/\ iot_machine_data # <<>>
        /\ pc = "idle"
        /\ \A i, j \in 1 .. Len(iot_machine_data) :
              (iot_machine_data[i].status = "FAIL") =
                  (iot_machine_data[j].status = "FAIL")
        /\ resp'.op = "train_model") =>
          resp'.body # "exception"]_vars

=============================================================================
